---- MODULE Spec2Model ----
(***************************************************************************)
(* Gym membership manager: the Record Store (server/server.js over the     *)
(* `members` table) as a state machine.  One action per route handler.     *)
(*                                                                         *)
(* A request body is a record of five fields; each field is a sequence of  *)
(* length 0 (the key is absent from the JSON body: undefined) or 1 (the    *)
(* key is present with that value).  Names are sequences of letter codes   *)
(* so that ORDER BY name is a real lexicographic comparison.  A stored     *)
(* join_date is a day number (the DATE column); a join_date input is a     *)
(* record describing the string handed to `new Date(...)`.                 *)
(***************************************************************************)
EXTENDS Integers, Sequences, FiniteSets, TLC

(* ---------------------------------------------------------------- bounds *)

\* AUTO_INCREMENT values handed out by the model: 1..MaxId.
MaxId == 2

(* ---------------------------------------------------------------- inputs *)

Ann == <<1, 14, 14>>
Bob == <<2, 15, 2>>

\* name: absent or a non-empty name.
NameInputs == {<<>>, <<Ann>>, <<Bob>>}

\* email: absent or an address.
EmailInputs == {<<>>, <<"ann@x.com">>, <<"bob@x.com">>}

\* membership_type: absent, the empty string, or a member of the enumeration.
TypeInputs == {<<>>, <<"">>, <<"Premium">>}

\* status: absent or a member of the enumeration.
StatusInputs == {<<>>, <<"Expired">>}

\* The strings handed to new Date(): "" , a string that is no date, a
\* date-only string (day), a date-time string with an explicit UTC offset
\* (day, minute of the day, offset in minutes east of UTC).
EmptyDate == [kind |-> "empty", day |-> 0, min |-> 0, off |-> 0]
MalformedDate == [kind |-> "malformed", day |-> 0, min |-> 0, off |-> 0]
DateOnly(d) == [kind |-> "date", day |-> d, min |-> 0, off |-> 0]
DateTime(d, m, o) == [kind |-> "datetime", day |-> d, min |-> m, off |-> o]

\* day 19797 is 2024-03-15; 23:30 at UTC-05:00 is 04:30 UTC of the next day.
DateInputs ==
    {<<>>, <<MalformedDate>>, <<DateOnly(19797)>>, <<DateTime(19797, 1410, -300)>>}

Bodies ==
    [name : NameInputs, email : EmailInputs, membership_type : TypeInputs,
     join_date : DateInputs, status : StatusInputs]

EmptyBody ==
    [name |-> <<>>, email |-> <<>>, membership_type |-> <<>>,
     join_date |-> <<>>, status |-> <<>>]

\* The :id path segment: a numeric string, or one that Number() maps to NaN.
NumId(i) == [num |-> TRUE, val |-> i]
NaNId == [num |-> FALSE, val |-> 0]
IdParams == {NumId(i) : i \in 1..MaxId} \cup {NaNId}

(* ------------------------------------------------------- JavaScript bits *)

\* JavaScript truthiness of a destructured body field: undefined and the
\* empty string are falsy.  One operator per field type.
TruthyName(f) == f # <<>> /\ f[1] # <<>>

TruthyStr(f) == f # <<>> /\ f[1] # ""

TruthyDate(f) == f # <<>> /\ f[1].kind # "empty"

\* f || dflt
OrElse(f, dflt) == IF TruthyStr(f) THEN f[1] ELSE dflt

isNaN(id) == ~id.num

\* new Date(s) is an Invalid Date, on which toISOString() throws RangeError.
Throws(jd) == jd.kind = "malformed"

\* new Date(s).toISOString().split('T')[0]: the UTC calendar day of the
\* instant s denotes.  A date-only string denotes UTC midnight of its day.
FormatJoinDate(jd) ==
    IF jd.kind = "date" THEN jd.day
    ELSE (jd.day * 1440 + jd.min - jd.off) \div 1440

(* ------------------------------------------------------ the members table *)

RowIds(tbl) == {r.id : r \in tbl}

\* result.insertId: the AUTO_INCREMENT value the INSERT is given.
InsertId(counter) == counter

\* Mutant: the email column carries no unique key.
DupEntryNoKey(tbl, email, self) == FALSE

\* The unique key on members.email: a row other than `self` holds `email`.
DupEntry(tbl, email, self) == \E r \in tbl : r.email = email /\ r.id # self

\* SELECT * FROM members WHERE id = ?
SelectById(tbl, id) == {r \in tbl : r.id = id}

\* Mutant: res.json(rows[1]), one past the only selected row.
FirstRowOffByOne(sel) == <<>>

\* res.json(rows[0]): the first selected row as the body, if there is one.
FirstRow(sel) == IF sel = {} THEN <<>> ELSE <<CHOOSE r \in sel : TRUE>>

RECURSIVE LexLeq(_, _)
\* Ascending comparison of two names under the column's collation.
LexLeq(a, b) ==
    IF a = <<>> THEN TRUE
    ELSE IF b = <<>> THEN FALSE
    ELSE IF a[1] # b[1] THEN a[1] < b[1]
    ELSE LexLeq(Tail(a), Tail(b))

\* Mutant: the query has no ORDER BY clause; rows come back in id order.
OrderById(tbl) ==
    {s \in [1..Cardinality(tbl) -> tbl] :
        \A i, j \in 1..Cardinality(tbl) : i < j => s[i].id < s[j].id}

\* SELECT * FROM members ORDER BY name ASC: every row once, names ascending;
\* the order of rows with equal names is the storage engine's choice.
OrderByName(tbl) ==
    {s \in [1..Cardinality(tbl) -> tbl] :
        /\ \A i, j \in 1..Cardinality(tbl) : i # j => s[i] # s[j]
        /\ \A i, j \in 1..Cardinality(tbl) : i < j => LexLeq(s[i].name, s[j].name)}

(* ---------------------------------------------------------------- state *)

VARIABLES
    members,   \* the rows of the members table
    nextId,    \* the table's AUTO_INCREMENT counter
    up,        \* the server process is running
    created,   \* history: the ids of the rows inserted, in order
    deleted,   \* history: the ids of the rows deleted
    last,      \* the request just answered, the table before it, the answer
    env,       \* the time zones of the server and the browser, and today
    rt,        \* a join_date on its way from the form to the store and back
    ui,        \* the browser: App's state and AddMemberForm's state
    calls      \* the axios calls awaiting their answer, with their closures

\* The variables of the Record Store, and those outside it.
svars == <<members, nextId, up, created, deleted, last>>
xvars == <<env, rt, ui, calls>>
vars == <<members, nextId, up, created, deleted, last, env, rt, ui, calls>>

NoRequest ==
    [op |-> "none", id |-> NaNId, body |-> EmptyBody, before |-> {},
     status |-> 0, rows |-> <<>>]

\* What a handler leaves behind: the request, the table it found, the
\* status it was answered with (0: no answer was written) and the JSON rows.
Answer(op, id, body, status, rows) ==
    [op |-> op, id |-> id, body |-> body, before |-> members,
     status |-> status, rows |-> rows]

\* The process's TZ on each side, in minutes east of UTC, and the browser's
\* current day.
Env(s, c, t) == [server |-> s, client |-> c, today |-> t]

\* No date is under way.
NoTrip == [stage |-> "none", day |-> 0, json |-> 0, shown |-> 0]

\* The store as the server finds it on its first start.
InitStore ==
    /\ members = {}
    /\ nextId = 1
    /\ up = TRUE
    /\ created = <<>>
    /\ deleted = {}
    /\ last = NoRequest

\* The form as useState initialises it and resetForm leaves it.
DefaultForm(today) ==
    [name |-> <<>>, email |-> "", membershipType |-> "Basic",
     joinDate |-> <<today>>, status |-> "Active", error |-> "",
     isEditing |-> FALSE]

\* App's useState values, its form, and two history flags: how the fetch
\* on mount ended, and whether any call has failed.
InitUi(today) ==
    [members |-> <<>>, loading |-> TRUE, error |-> "", editingMember |-> <<>>,
     form |-> DefaultForm(today), refresh |-> "pending", anyFailed |-> FALSE]

\* No browser is attached.
NoBrowser ==
    /\ ui = InitUi(19797)
    /\ calls = {}

Init ==
    /\ InitStore
    /\ env = Env(0, 0, 19797)
    /\ rt = NoTrip
    /\ NoBrowser

\* How a request ends once its handler has settled on status st.  st = 0
\* stands for an exception thrown outside the handler's try block: the
\* async handler's promise rejects, and by framework and runtime version
\* the request is never answered while the process goes on, the unhandled
\* rejection ends the process, or the framework's error handler answers 500.
Outcomes(st) ==
    IF st = 0
    THEN {[status |-> 0, up |-> TRUE], [status |-> 0, up |-> FALSE],
          [status |-> 500, up |-> TRUE]}
    ELSE {[status |-> st, up |-> TRUE]}

(* ------------------------------------------------------------- handlers *)

\* GET /api/members
GetMembers ==
    /\ \E rows \in OrderByName(members) :
        last' = Answer("GET", NaNId, EmptyBody, 200, rows)
    /\ UNCHANGED <<members, nextId, up, created, deleted>>

\* Mutant: the INSERT binds the body's fields as they came, without defaults.
NewRowNoDefaults(id, body) ==
    [id |-> id,
     name |-> body.name[1],
     email |-> body.email[1],
     membership_type |-> IF body.membership_type = <<>> THEN ""
                         ELSE body.membership_type[1],
     join_date |-> FormatJoinDate(body.join_date[1]),
     status |-> IF body.status = <<>> THEN "" ELSE body.status[1]]

\* The row INSERTed by POST /api/members.
NewRow(id, body) ==
    [id |-> id,
     name |-> body.name[1],
     email |-> body.email[1],
     membership_type |-> OrElse(body.membership_type, "Basic"),
     join_date |-> FormatJoinDate(body.join_date[1]),
     status |-> OrElse(body.status, "Active")]

\* The status POST settles on; 0 when the handler throws.
PostStatus(tbl, body) ==
    IF ~TruthyName(body.name) \/ ~TruthyStr(body.email)
        \/ ~TruthyDate(body.join_date)
    THEN 400
    ELSE IF Throws(body.join_date[1]) THEN 0
    ELSE IF DupEntry(tbl, body.email[1], 0) THEN 409
    ELSE 201

\* POST /api/members
PostMember(body) ==
    LET st == PostStatus(members, body)
        row == NewRow(InsertId(nextId), body)
    IN  /\ st \in {201, 409} => nextId <= MaxId
        /\ members' = IF st = 201 THEN members \cup {row} ELSE members
        /\ nextId' \in IF st = 201 THEN {nextId + 1}
                       ELSE IF st = 409 THEN {nextId, nextId + 1}
                       ELSE {nextId}
        /\ created' = IF st = 201 THEN Append(created, row.id) ELSE created
        /\ \E out \in Outcomes(st) :
              /\ up' = out.up
              /\ last' = Answer("POST", NaNId, body, out.status,
                     IF st = 201 THEN FirstRow(SelectById(members', row.id))
                     ELSE <<>>)
        /\ UNCHANGED deleted

\* Mutant: affectedRows is not looked at.
DeleteStatusNoCheck(tbl, id) == IF isNaN(id) THEN 400 ELSE 200

\* The status DELETE answers with.
DeleteStatus(tbl, id) ==
    IF isNaN(id) THEN 400
    ELSE IF SelectById(tbl, id.val) = {} THEN 404
    ELSE 200

\* DELETE /api/members/:id
DeleteMember(id) ==
    LET st == DeleteStatus(members, id)
    IN  /\ members' = IF st = 200 THEN members \ SelectById(members, id.val)
                      ELSE members
        /\ deleted' = IF st = 200 THEN deleted \cup {id.val} ELSE deleted
        /\ last' = Answer("DELETE", id, EmptyBody, st, <<>>)
        /\ UNCHANGED <<nextId, up, created>>

\* if (!name && !email && !membership_type && !join_date && !status)
NoUpdateData(body) ==
    /\ ~TruthyName(body.name)
    /\ ~TruthyStr(body.email)
    /\ ~TruthyStr(body.membership_type)
    /\ ~TruthyDate(body.join_date)
    /\ ~TruthyStr(body.status)

\* Mutant: the UPDATE sets all five columns, absent fields to their defaults.
PatchedBlind(r, body) ==
    [id |-> r.id,
     name |-> IF TruthyName(body.name) THEN body.name[1] ELSE r.name,
     email |-> IF TruthyStr(body.email) THEN body.email[1] ELSE r.email,
     membership_type |-> OrElse(body.membership_type, "Basic"),
     join_date |-> IF TruthyDate(body.join_date)
                   THEN FormatJoinDate(body.join_date[1]) ELSE r.join_date,
     status |-> OrElse(body.status, "Active")]

\* Mutant: the UPDATE never sets the email column.
PatchedNoEmail(r, body) ==
    [id |-> r.id,
     name |-> IF TruthyName(body.name) THEN body.name[1] ELSE r.name,
     email |-> r.email,
     membership_type |-> IF TruthyStr(body.membership_type)
                         THEN body.membership_type[1] ELSE r.membership_type,
     join_date |-> IF TruthyDate(body.join_date)
                   THEN FormatJoinDate(body.join_date[1]) ELSE r.join_date,
     status |-> IF TruthyStr(body.status) THEN body.status[1] ELSE r.status]

\* The row after UPDATE members SET <the truthy fields> WHERE id = ?
Patched(r, body) ==
    [id |-> r.id,
     name |-> IF TruthyName(body.name) THEN body.name[1] ELSE r.name,
     email |-> IF TruthyStr(body.email) THEN body.email[1] ELSE r.email,
     membership_type |-> IF TruthyStr(body.membership_type)
                         THEN body.membership_type[1] ELSE r.membership_type,
     join_date |-> IF TruthyDate(body.join_date)
                   THEN FormatJoinDate(body.join_date[1]) ELSE r.join_date,
     status |-> IF TruthyStr(body.status) THEN body.status[1] ELSE r.status]

\* Mutant: the row is looked up before the body is validated.
PutStatusLookupFirst(tbl, id, body) ==
    IF isNaN(id) THEN 400
    ELSE IF SelectById(tbl, id.val) = {} THEN 404
    ELSE IF NoUpdateData(body) THEN 400
    ELSE IF TruthyDate(body.join_date) /\ Throws(body.join_date[1]) THEN 0
    ELSE IF TruthyStr(body.email) /\ DupEntry(tbl, body.email[1], id.val) THEN 409
    ELSE 200

\* Mutant: affectedRows counts only the rows the UPDATE changed (a
\* connection without FOUND_ROWS).
PutStatusChangedRows(tbl, id, body) ==
    IF isNaN(id) THEN 400
    ELSE IF NoUpdateData(body) THEN 400
    ELSE IF TruthyDate(body.join_date) /\ Throws(body.join_date[1]) THEN 0
    ELSE IF {r \in SelectById(tbl, id.val) : Patched(r, body) # r} = {} THEN 404
    ELSE IF TruthyStr(body.email) /\ DupEntry(tbl, body.email[1], id.val) THEN 409
    ELSE 200

\* The status PUT settles on; 0 when the handler throws.
\* affectedRows counts the rows the WHERE clause matched (mysql2 connects
\* with FOUND_ROWS), so an update that changes nothing still affects one.
PutStatus(tbl, id, body) ==
    IF isNaN(id) THEN 400
    ELSE IF NoUpdateData(body) THEN 400
    ELSE IF TruthyDate(body.join_date) /\ Throws(body.join_date[1]) THEN 0
    ELSE IF SelectById(tbl, id.val) = {} THEN 404
    ELSE IF TruthyStr(body.email) /\ DupEntry(tbl, body.email[1], id.val) THEN 409
    ELSE 200

\* PUT /api/members/:id
PutMember(id, body) ==
    LET st == PutStatus(members, id, body)
    IN  /\ members' = IF st = 200
                      THEN {IF r.id = id.val THEN Patched(r, body) ELSE r :
                              r \in members}
                      ELSE members
        /\ \E out \in Outcomes(st) :
              /\ up' = out.up
              /\ last' = Answer("PUT", id, body, out.status,
                     IF st = 200 THEN FirstRow(SelectById(members', id.val))
                     ELSE <<>>)
        /\ UNCHANGED <<nextId, created, deleted>>

\* One request at a time: the next one is taken once the last is answered.
Idle == up /\ last = NoRequest

\* The answer has been written; the server waits for the next request.
Listen ==
    /\ up /\ last # NoRequest
    /\ last' = NoRequest
    /\ UNCHANGED <<members, nextId, up, created, deleted>>
    /\ UNCHANGED xvars

Get == Idle /\ GetMembers /\ UNCHANGED xvars

Post == Idle /\ (\E body \in Bodies : PostMember(body)) /\ UNCHANGED xvars

Delete == Idle /\ (\E id \in IdParams : DeleteMember(id)) /\ UNCHANGED xvars

Put ==
    /\ Idle
    /\ \E id \in IdParams, body \in Bodies : PutMember(id, body)
    /\ UNCHANGED xvars

Next ==
    \/ Listen
    \/ Get
    \/ Post
    \/ Delete
    \/ Put

Spec == Init /\ [][Next]_vars

(* ------------------------------------------- a join_date's round trip *)

\* The JSON form of a DATE column: mysql2 (dateStrings off, timezone local)
\* reads the day as a Date at the server's local midnight and res.json
\* writes that instant with toISOString().  Minutes since the epoch.
JsonDate(day, off) == day * 1440 - off

\* toISOString().split('T')[0]: the UTC day of an instant.
IsoDay(instant) == instant \div 1440

\* Mutant: the ISO string is cut at 'T' without the offset adjustment.
formatDateForInputNoShift(instant, off) == IsoDay(instant)

\* formatDateForInput: the instant is moved by -getTimezoneOffset()
\* minutes (the browser's offset east of UTC) before it is cut at 'T'.
formatDateForInput(instant, off) == IsoDay(instant + off)

\* What the form submits: all five fields, join_date as the date input's
\* 'YYYY-MM-DD' value.
FormBody(name, email, type, day, status) ==
    [name |-> <<name>>, email |-> <<email>>, membership_type |-> <<type>>,
     join_date |-> <<DateOnly(day)>>, status |-> <<status>>]

TzOffsets == {-480, -300, 0, 60, 330}

TripDays == {19723, 19797}

InitDate ==
    /\ InitStore
    /\ \E s \in TzOffsets, c \in TzOffsets, d \in TripDays :
          /\ env = Env(s, c, d)
          /\ rt = [stage |-> "typed", day |-> d, json |-> 0, shown |-> 0]
    /\ NoBrowser

\* The form's date is posted and stored.
DateCreate ==
    /\ rt.stage = "typed"
    /\ PostMember(FormBody(Ann, "ann@x.com", "Basic", rt.day, "Active"))
    /\ rt' = [rt EXCEPT !.stage = "created"]
    /\ UNCHANGED <<env, ui, calls>>

\* The member is listed back; its join_date travels as JSON.
DateList ==
    /\ rt.stage = "created"
    /\ GetMembers
    /\ rt' = [rt EXCEPT !.stage = "listed",
                        !.json = JsonDate(last'.rows[1].join_date, env.server)]
    /\ UNCHANGED <<env, ui, calls>>

\* The browser converts the listed join_date for the date input.
DateShow ==
    /\ rt.stage = "listed"
    /\ rt' = [rt EXCEPT !.stage = "shown",
                        !.shown = formatDateForInput(rt.json, env.client)]
    /\ UNCHANGED <<members, nextId, up, created, deleted, last, env>>
    /\ UNCHANGED <<ui, calls>>

NextDate ==
    \/ DateCreate
    \/ DateList
    \/ DateShow

SpecDate == InitDate /\ [][NextDate]_vars

(* ------------------------------------------------------------ the browser *)

\* What the user types into the name and email inputs.
FormEntries == {<<Ann, "ann@x.com">>, <<Bob, "bob@x.com">>, <<Bob, "ann@x.com">>}

\* res.json of a row: the DATE column travels as an instant.
JsonRow(r) == [r EXCEPT !.join_date = JsonDate(r.join_date, env.server)]

JsonRows(rows) == [k \in 1..Len(rows) |-> JsonRow(rows[k])]

\* a.name.localeCompare(b.name) <= 0
localeCompareLeq(a, b) == LexLeq(a, b)

\* Array.prototype.sort with the name comparator; the sort is stable.
InsertByName(sorted, x) ==
    LET k == Cardinality({i \in 1..Len(sorted) :
                             localeCompareLeq(sorted[i].name, x.name)})
    IN SubSeq(sorted, 1, k) \o <<x>> \o SubSeq(sorted, k + 1, Len(sorted))

RECURSIVE SortByName(_)
SortByName(rows) ==
    IF rows = <<>> THEN <<>>
    ELSE InsertByName(SortByName(SubSeq(rows, 1, Len(rows) - 1)),
                      rows[Len(rows)])

\* The effect on editingMember, when it holds a member: the form's fields
\* are filled from it.
PopulatedForm(m) ==
    [name |-> m.name, email |-> m.email,
     membershipType |-> IF m.membership_type = "" THEN "Basic"
                        ELSE m.membership_type,
     joinDate |-> <<formatDateForInput(m.join_date, env.client)>>,
     status |-> IF m.status = "" THEN "Active" ELSE m.status,
     error |-> "", isEditing |-> TRUE]

\* setEditingMember(e) and the effect it triggers when e is a new value:
\* populate for a member, resetForm for null.  A member is identified by
\* its value (two cached objects with equal fields count as one).
setEditingMember(u, e) ==
    IF e = u.editingMember THEN u
    ELSE [u EXCEPT !.editingMember = e,
                   !.form = IF e = <<>> THEN DefaultForm(env.today)
                            ELSE PopulatedForm(e[1])]

\* resetForm: every field to its default, the editing target to null.
resetForm(u) ==
    [u EXCEPT !.form = DefaultForm(env.today), !.editingMember = <<>>]

\* handleMemberAdded
handleMemberAdded(u, m) ==
    [u EXCEPT !.members = SortByName(Append(@, m))]

\* handleUpdateComplete
handleUpdateComplete(u, m) ==
    LET replaced == [k \in 1..Len(u.members) |->
                        IF u.members[k].id = m.id THEN m ELSE u.members[k]]
    IN setEditingMember([u EXCEPT !.members = SortByName(replaced)], <<>>)

\* prevMembers.filter(member => member.id !== id)
RECURSIVE WithoutId(_, _)
WithoutId(rows, id) ==
    IF rows = <<>> THEN <<>>
    ELSE IF rows[1].id = id THEN WithoutId(Tail(rows), id)
         ELSE <<rows[1]>> \o WithoutId(Tail(rows), id)

\* An axios call: its request, the editingMember its handler closed over,
\* and its answer once the server gave one.
Call(kind, id, body, edit) ==
    [kind |-> kind, id |-> id, body |-> body, edit |-> edit,
     phase |-> "sent", status |-> 0, rows |-> <<>>]

Answered(c, status, rows) ==
    [c EXCEPT !.phase = "answered", !.status = status, !.rows = rows]

\* The user clicks Submit or Delete only when no earlier click is awaiting
\* its answer (the fetch on mount may still be under way), and the table
\* has an id left for an INSERT.
CanIssue(c) ==
    /\ \A d \in calls : d.kind = "GET"
    /\ c.kind = "POST" => nextId <= MaxId

\* The page is mounted: fetchMembers is on its way, the list shows Loading.
\* Server and browser both run in UTC, where dates do not drift (the other
\* zones are the subject of SpecDate).
InitClient ==
    /\ InitStore
    /\ env = Env(0, 0, 19797)
    /\ rt = NoTrip
    /\ ui = InitUi(env.today)
    /\ calls = {Call("GET", 0, EmptyBody, <<>>)}

\* The user fills in the form: onChange of the name and email inputs.
Fill ==
    /\ Idle
    /\ \E p \in FormEntries :
          /\ <<ui.form.name, ui.form.email>> # p
          /\ ui' = [ui EXCEPT !.form.name = p[1], !.form.email = p[2]]
    /\ UNCHANGED <<svars, env, rt, calls>>

\* handleSubmit up to its await: validation, then axios.put or axios.post.
Submit ==
    /\ Idle
    /\ LET f == ui.form
       IN IF f.name = <<>> \/ f.email = "" \/ f.joinDate = <<>>
          THEN /\ ui' = [ui EXCEPT !.form.error = "required"]
               /\ calls' = calls
          ELSE LET data == FormBody(f.name, f.email, f.membershipType,
                                    f.joinDate[1], f.status)
                   c == IF f.isEditing /\ ui.editingMember # <<>>
                        THEN Call("PUT", ui.editingMember[1].id, data, <<>>)
                        ELSE Call("POST", 0, data, <<>>)
               IN /\ CanIssue(c)
                  /\ ui' = [ui EXCEPT !.form.error = ""]
                  /\ calls' = calls \cup {c}
    /\ UNCHANGED <<svars, env, rt>>

\* The Cancel button, shown while isEditing: resetForm.
Cancel ==
    /\ Idle
    /\ ui.form.isEditing
    /\ ui' = resetForm(ui)
    /\ UNCHANGED <<svars, env, rt, calls>>

\* handleEditMember, from the Edit button of a listed member.
BeginEdit ==
    /\ Idle
    /\ ~ui.loading
    /\ \E k \in 1..Len(ui.members) :
          /\ ui' = setEditingMember(ui, <<ui.members[k]>>)
    /\ UNCHANGED <<svars, env, rt, calls>>

\* handleDeleteMember up to its await, the confirm dialog accepted; the
\* handler keeps the editingMember of the render it was created in.
ConfirmDelete ==
    /\ Idle
    /\ ~ui.loading
    /\ \E k \in 1..Len(ui.members) :
          LET c == Call("DELETE", ui.members[k].id, EmptyBody, ui.editingMember)
          IN /\ CanIssue(c)
             /\ calls' = calls \cup {c}
    /\ UNCHANGED <<svars, env, rt, ui>>

\* The server handles the browser's GET /api/members.
ServeGet ==
    /\ Idle
    /\ \E c \in calls :
          /\ c.kind = "GET" /\ c.phase = "sent"
          /\ GetMembers
          /\ calls' = (calls \ {c})
                         \cup {Answered(c, last'.status, JsonRows(last'.rows))}
    /\ UNCHANGED <<env, rt, ui>>

\* The server handles the browser's POST /api/members.
ServePost ==
    /\ Idle
    /\ \E c \in calls :
          /\ c.kind = "POST" /\ c.phase = "sent"
          /\ PostMember(c.body)
          /\ calls' = (calls \ {c})
                         \cup {Answered(c, last'.status, JsonRows(last'.rows))}
    /\ UNCHANGED <<env, rt, ui>>

\* The server handles the browser's PUT /api/members/:id.
ServePut ==
    /\ Idle
    /\ \E c \in calls :
          /\ c.kind = "PUT" /\ c.phase = "sent"
          /\ PutMember(NumId(c.id), c.body)
          /\ calls' = (calls \ {c})
                         \cup {Answered(c, last'.status, JsonRows(last'.rows))}
    /\ UNCHANGED <<env, rt, ui>>

\* The server handles the browser's DELETE /api/members/:id.
ServeDelete ==
    /\ Idle
    /\ \E c \in calls :
          /\ c.kind = "DELETE" /\ c.phase = "sent"
          /\ DeleteMember(NumId(c.id))
          /\ calls' = (calls \ {c})
                         \cup {Answered(c, last'.status, JsonRows(last'.rows))}
    /\ UNCHANGED <<env, rt, ui>>

\* The handler's first query is rejected by the database: its catch block
\* answers 500 and nothing is stored.
StorageFault ==
    /\ Idle
    /\ \E c \in calls :
          /\ c.phase = "sent"
          /\ calls' = (calls \ {c}) \cup {Answered(c, 500, <<>>)}
    /\ UNCHANGED <<svars, env, rt, ui>>

\* axios resolves for a 2xx status and rejects otherwise.
Resolved(c) == c.status >= 200 /\ c.status < 300

\* Mutant: a failed fetch empties the list.
fetchFailedClearsList(u) ==
    [u EXCEPT !.members = <<>>, !.error = "fetch", !.loading = FALSE,
              !.refresh = "failed", !.anyFailed = TRUE]

\* fetchMembers, its catch and finally blocks.
fetchFailed(u) ==
    [u EXCEPT !.error = "fetch", !.loading = FALSE,
              !.refresh = "failed", !.anyFailed = TRUE]

\* fetchMembers after its await.
FetchDone ==
    /\ Idle
    /\ \E c \in calls :
          /\ c.kind = "GET" /\ c.phase = "answered"
          /\ calls' = calls \ {c}
          /\ ui' = IF Resolved(c)
                   THEN [ui EXCEPT !.members = c.rows, !.loading = FALSE,
                                   !.refresh = "ok"]
                   ELSE fetchFailed(ui)
    /\ UNCHANGED <<svars, env, rt>>

\* Mutant: the catch block of handleSubmit also resets the form.
submitFailedResets(u) ==
    [resetForm(u) EXCEPT !.form.error = "failed", !.anyFailed = TRUE]

\* The catch block of handleSubmit.
submitFailed(u) == [u EXCEPT !.form.error = "failed", !.anyFailed = TRUE]

\* handleSubmit after its await.
SubmitDone ==
    /\ Idle
    /\ \E c \in calls :
          /\ c.kind \in {"POST", "PUT"} /\ c.phase = "answered"
          /\ calls' = calls \ {c}
          /\ ui' = IF ~Resolved(c) THEN submitFailed(ui)
                   ELSE IF c.kind = "PUT"
                        THEN resetForm(handleUpdateComplete(ui, c.rows[1]))
                        ELSE resetForm(handleMemberAdded(ui, c.rows[1]))
    /\ UNCHANGED <<svars, env, rt>>

\* handleDeleteMember after a resolved await: the filter, then the test
\* of the editingMember the handler closed over.
deleteResolved(u, c) ==
    LET v == [u EXCEPT !.members = WithoutId(@, c.id)]
    IN IF c.edit # <<>> /\ c.edit[1].id = c.id
       THEN setEditingMember(v, <<>>)
       ELSE v

\* handleDeleteMember after its await.
DeleteDone ==
    /\ Idle
    /\ \E c \in calls :
          /\ c.kind = "DELETE" /\ c.phase = "answered"
          /\ calls' = calls \ {c}
          /\ ui' = IF Resolved(c) THEN deleteResolved(ui, c)
                   ELSE [ui EXCEPT !.error = "delete", !.anyFailed = TRUE]
    /\ UNCHANGED <<svars, env, rt>>

NextClient ==
    \/ Fill
    \/ Submit
    \/ Cancel
    \/ BeginEdit
    \/ ConfirmDelete
    \/ ServeGet
    \/ ServePost
    \/ ServePut
    \/ ServeDelete
    \/ StorageFault
    \/ FetchDone
    \/ SubmitDone
    \/ DeleteDone
    \/ Listen

SpecClient == InitClient /\ [][NextClient]_vars

(* ---------------------------------------------------------------- claims *)

Fields == {"name", "email", "membership_type", "join_date", "status"}

\* The keys present in a request body.
Supplied(body) == {f \in Fields : body[f] # <<>>}

\* The keys present in a request body with a truthy value.
SuppliedTruthy(body) ==
    {f \in Supplied(body) :
        IF f = "name" THEN TruthyName(body[f])
        ELSE IF f = "join_date" THEN TruthyDate(body[f])
        ELSE TruthyStr(body[f])}

\* The value a request body carries for a column, as the column holds it.
Carried(body, f) ==
    IF f = "join_date" THEN FormatJoinDate(body[f][1]) ELSE body[f][1]

Unchanged == members = last.before

Range(seq) == {seq[k] : k \in 1..Len(seq)}

\* The target row of the last PUT, before and after it.
OldRow == CHOOSE r \in last.before : r.id = last.id.val
NewRowOf == CHOOSE r \in members : r.id = last.id.val

\* C1: in every reachable state no two stored members have the same email.
C1_EmailUnique ==
    \A r1, r2 \in members : r1.email = r2.email => r1 = r2

\* C1 witness: two members are stored and a request has just been refused
\* as a conflict.
C1_Witness ==
    /\ Cardinality(members) = 2
    /\ last.op \in {"POST", "PUT"}
    /\ last.status = 409

\* C2: the id a successful create returns differs from the id of every
\* record created before it, deleted ones included, and a list contains
\* every created and not deleted id exactly once.
C2_FreshIdListedOnce ==
    /\ \A i, j \in 1..Len(created) : i # j => created[i] # created[j]
    /\ (last.op = "POST" /\ last.status = 201) =>
          /\ Len(last.rows) = 1
          /\ last.rows[1].id = created[Len(created)]
    /\ last.op = "GET" =>
          \A i \in Range(created) \ deleted :
              Cardinality({k \in 1..Len(last.rows) : last.rows[k].id = i}) = 1

\* C2 witness: a list, issued after a create that followed the delete of an
\* earlier record, holds the newer record.
C2_Witness ==
    /\ last.op = "GET"
    /\ Len(created) = 2
    /\ deleted = {created[1]}
    /\ Len(last.rows) = 1
    /\ last.rows[1].id = created[2]

\* C3: a create (with its required fields) whose email is the email of a
\* stored member is answered 409 and leaves the store as it was.
C3_DuplicateCreateConflicts ==
    (/\ last.op = "POST"
     /\ TruthyName(last.body.name)
     /\ TruthyStr(last.body.email)
     /\ TruthyDate(last.body.join_date)
     /\ DupEntry(last.before, last.body.email[1], 0))
    => (last.status = 409 /\ Unchanged)

\* C4 as claimed: a successful update sets every field the patch supplies
\* to the supplied value and leaves the rest, the id and the other rows.
C4_AsClaimed ==
    (last.op = "PUT" /\ last.status = 200) =>
        /\ \A f \in Fields :
              NewRowOf[f] = IF f \in Supplied(last.body)
                            THEN Carried(last.body, f) ELSE OldRow[f]
        /\ NewRowOf.id = OldRow.id
        /\ members \ {NewRowOf} = last.before \ {OldRow}
        /\ last.rows = <<NewRowOf>>

\* C4 as amended: a successful update sets every field the patch supplies
\* with a non-empty value to that value; every other field (absent, or
\* supplied empty) keeps its value, the id is kept, the other rows are
\* untouched and the answer is the row as stored.
C4_PartialUpdate ==
    (last.op = "PUT" /\ last.status = 200) =>
        /\ \A f \in Fields :
              NewRowOf[f] = IF f \in SuppliedTruthy(last.body)
                            THEN Carried(last.body, f) ELSE OldRow[f]
        /\ NewRowOf.id = OldRow.id
        /\ Cardinality(SelectById(members, last.id.val)) = 1
        /\ members \ {NewRowOf} = last.before \ {OldRow}
        /\ last.rows = <<NewRowOf>>

\* C4 witness: an update supplying only status changed it on a row of a
\* two-row table.
C4_Witness ==
    /\ last.op = "PUT" /\ last.status = 200
    /\ Supplied(last.body) = {"status"}
    /\ Cardinality(members) = 2
    /\ OldRow.status = "Active"
    /\ NewRowOf.status = "Expired"
    /\ OldRow.membership_type = "Premium"

\* C5: an update whose patch supplies no field is answered 400, for every
\* id, and leaves the store as it was.
C5_EmptyPatchRejected ==
    (last.op = "PUT" /\ Supplied(last.body) = {}) =>
        (last.status = 400 /\ Unchanged)

\* C5 witness: an empty patch sent to the id of a stored row was refused.
C5_Witness ==
    /\ last.op = "PUT"
    /\ Supplied(last.body) = {}
    /\ last.id.num
    /\ last.id.val \in RowIds(last.before)
    /\ last.status = 400

\* C6: an update with a well-formed id no row has and a non-empty patch is
\* answered 404 and leaves the store as it was, whatever the patch carries.
C6_UnknownIdNotFound ==
    (/\ last.op = "PUT"
     /\ last.id.num
     /\ last.id.val \notin RowIds(last.before)
     /\ SuppliedTruthy(last.body) # {})
    => (last.status = 404 /\ Unchanged)

\* C7: an update of a stored row whose patch sets email to the email of
\* another stored row is answered 409 and leaves every row as it was.
C7_DuplicateUpdateConflicts ==
    (/\ last.op = "PUT"
     /\ last.id.num
     /\ last.id.val \in RowIds(last.before)
     /\ TruthyStr(last.body.email)
     /\ DupEntry(last.before, last.body.email[1], last.id.val))
    => (last.status = 409 /\ Unchanged)

\* C8 as claimed: a delete on any id no stored row has is answered 404 and
\* leaves the store as it was.
C8_AsClaimed ==
    (/\ last.op = "DELETE"
     /\ (isNaN(last.id) \/ last.id.val \notin RowIds(last.before)))
    => (last.status = 404 /\ Unchanged)

\* C8 as amended: a delete on a well-formed id no stored row has is
\* answered 404 and leaves the store as it was; and an id once deleted is
\* never stored again, whatever is created afterwards.
C8_DeleteUnknownNotFound ==
    /\ (/\ last.op = "DELETE"
        /\ last.id.num
        /\ last.id.val \notin RowIds(last.before))
       => (last.status = 404 /\ Unchanged)
    /\ deleted \cap RowIds(members) = {}

\* C8 witness: the second delete of an id, with a create in between, was
\* answered 404.
C8_Witness ==
    /\ last.op = "DELETE"
    /\ last.status = 404
    /\ last.id.val \in deleted
    /\ Len(created) = 2
    /\ last.id.val = created[1]
    /\ created[2] \in RowIds(members)

\* C9: a list returns every stored member exactly once, in ascending order
\* of name, whatever the order of creation.
C9_ListSortedComplete ==
    last.op = "GET" =>
        /\ last.status = 200
        /\ Len(last.rows) = Cardinality(members)
        /\ Range(last.rows) = members
        /\ \A i, j \in 1..Len(last.rows) :
              i < j => LexLeq(last.rows[i].name, last.rows[j].name)

\* C9 witness: the member created second is listed first.
C9_Witness ==
    /\ last.op = "GET"
    /\ Len(last.rows) = 2
    /\ last.rows[1].id > last.rows[2].id
    /\ last.rows[1].name = Ann
    /\ last.rows[2].name = Bob

\* C10 as claimed: a successful create stores and returns "Basic" for an
\* omitted membership_type and "Active" for an omitted status, and stores a
\* supplied membership_type or status as supplied.
C10_AsClaimed ==
    (last.op = "POST" /\ last.status = 201) =>
        /\ Len(last.rows) = 1
        /\ last.rows[1] \in members
        /\ last.rows[1].membership_type =
              IF last.body.membership_type = <<>> THEN "Basic"
              ELSE last.body.membership_type[1]
        /\ last.rows[1].status =
              IF last.body.status = <<>> THEN "Active"
              ELSE last.body.status[1]

\* C10 as amended: a successful create stores and returns "Basic" for a
\* membership_type that is omitted or empty and "Active" for a status that
\* is omitted or empty; a non-empty one is stored as supplied.
C10_Defaults ==
    (last.op = "POST" /\ last.status = 201) =>
        /\ Len(last.rows) = 1
        /\ last.rows[1] \in members
        /\ last.rows[1].membership_type =
              IF TruthyStr(last.body.membership_type)
              THEN last.body.membership_type[1] ELSE "Basic"
        /\ last.rows[1].status =
              IF TruthyStr(last.body.status)
              THEN last.body.status[1] ELSE "Active"

\* C10 witness: a create omitting membership_type and supplying status
\* stored "Basic" and the supplied status.
C10_Witness ==
    /\ last.op = "POST" /\ last.status = 201
    /\ last.body.membership_type = <<>>
    /\ last.body.status = <<"Expired">>
    /\ last.rows[1].membership_type = "Basic"
    /\ last.rows[1].status = "Expired"

\* C11: every create or update carrying a malformed join_date is answered
\* 400, leaves the store as it was, and leaves the server running.
C11_MalformedDateRejected ==
    (/\ last.op \in {"POST", "PUT"}
     /\ last.body.join_date = <<MalformedDate>>)
    => (last.status = 400 /\ Unchanged /\ up)

C12_DateRoundTrip ==
    /\ rt.stage \in {"listed", "shown"} => IsoDay(rt.json) = rt.day
    /\ rt.stage = "shown" => rt.shown = rt.day

\* The step handles the answer of call c: the continuation after the await
\* runs, and c is no longer awaited.
Handled(c) == c \in calls /\ c.phase = "answered" /\ c \notin calls'

CachedIds(u) == {u.members[k].id : k \in 1..Len(u.members)}

\* C15: when the step handles the resolved Delete of record r, afterwards r
\* is not in the cache and the editing target is not r.
C15_DeletedNotEdited ==
    [][\A c \in calls :
          (Handled(c) /\ c.kind = "DELETE" /\ Resolved(c))
          => /\ c.id \notin CachedIds(ui')
             /\ ui'.editingMember = <<>> \/ ui'.editingMember[1].id # c.id]_vars

NoDuplicateIds(rows) ==
    \A j, k \in 1..Len(rows) : rows[j].id = rows[k].id => j = k

SortedByName(rows) ==
    \A j, k \in 1..Len(rows) : j < k => localeCompareLeq(rows[j].name, rows[k].name)

\* C18: when the fetch on mount has resolved and no call is awaited, the
\* cache holds exactly the stored records, each once.
C18_CacheIsStore ==
    (ui.refresh = "ok" /\ calls = {})
    => /\ Range(ui.members) = {JsonRow(r) : r \in members}
       /\ NoDuplicateIds(ui.members)

\* C16: as long as every call handled so far has succeeded, the cache is
\* sorted by name and holds no id twice.
C16_CacheSortedNoDuplicates ==
    ~ui.anyFailed => SortedByName(ui.members) /\ NoDuplicateIds(ui.members)

\* The step handles a rejected call: validation, conflict, not-found or
\* storage fault answered by the server.
FailureHandled(c) == Handled(c) /\ ~Resolved(c)

\* C13 as worded, for the fetch issued on mount, before which the cache
\* is empty: when its failure is handled the cache is empty.
C13_AsClaimed ==
    [][\A c \in calls :
          (FailureHandled(c) /\ c.kind = "GET") => ui'.members = <<>>]_vars

\* C13: handling a failed call leaves the cache as it is at that moment.
C13_FailureKeepsCache ==
    [][\A c \in calls : FailureHandled(c) => ui'.members = ui.members]_vars

\* A failed fetch has been handled over a cache that is not empty.
C13_Witness ==
    /\ ui.refresh = "failed"
    /\ ui.members # <<>>
    /\ calls = {}

\* C20: when the failure of a Submit-edit or Submit-add is handled, the
\* mode, the editing target and every field keep their values and the
\* form's error message is set.
C20_FailedSubmitKeepsForm ==
    [][\A c \in calls :
          (FailureHandled(c) /\ c.kind \in {"PUT", "POST"})
          => /\ ui'.form.isEditing = ui.form.isEditing
             /\ ui'.editingMember = ui.editingMember
             /\ \A f \in {"name", "email", "membershipType", "joinDate", "status"} :
                   ui'.form[f] = ui.form[f]
             /\ ui'.form.error # ""]_vars

\* A failed Submit-edit has been handled: Edit-mode, target and entered
\* values in place, error shown.
C20_Witness ==
    /\ ui.form.isEditing
    /\ ui.editingMember # <<>>
    /\ ui.form.error = "failed"
    /\ ui.form.name # ui.editingMember[1].name
    /\ calls = {}

\* C14: the form starts in Add-mode with no target.  Begin-edit fills the
\* form from the record and enters Edit-mode; a resolved Submit-edit, a
\* Cancel and a resolved Delete of the record under edit reset the form to
\* Add-mode with no target; a resolved Submit-add resets the form; no other
\* step changes the mode.
C14_FormModes ==
    /\ ~ui.form.isEditing /\ ui.editingMember = <<>>
    /\ [][/\ (ui'.editingMember # <<>> /\ ui'.editingMember # ui.editingMember)
             => /\ ui'.editingMember[1] \in Range(ui.members)
                /\ ui'.form = PopulatedForm(ui'.editingMember[1])
          /\ \A c \in calls :
                (/\ Handled(c) /\ Resolved(c)
                 /\ \/ c.kind \in {"PUT", "POST"}
                    \/ /\ c.kind = "DELETE"
                       /\ ui.editingMember # <<>>
                       /\ ui.editingMember[1].id = c.id)
                => /\ ui'.form = DefaultForm(env.today)
                   /\ ui'.editingMember = <<>>
          /\ (ui.form.isEditing /\ ~ui'.form.isEditing)
             => /\ ui'.form = DefaultForm(env.today)
                /\ ui'.editingMember = <<>>
                /\ \/ calls' = calls
                   \/ \E c \in calls :
                         /\ Handled(c) /\ Resolved(c)
                         /\ \/ c.kind \in {"PUT", "POST"}
                            \/ c.kind = "DELETE" /\ ui.editingMember[1].id = c.id
          /\ (~ui.form.isEditing /\ ui'.form.isEditing)
             => calls' = calls /\ ui'.editingMember # <<>>]_vars

(* ------------------------------------------- two browsers editing one row *)

StoredAnn == NewRow(1, FormBody(Ann, "ann@x.com", "Basic", 19797, "Active"))
StoredBob == NewRow(2, FormBody(Bob, "bob@x.com", "Basic", 19797, "Active"))

\* What a browser that holds Ann in Edit-mode may submit.
EditBodies ==
    {FormBody(n, e, t, 19797, "Active") :
        n \in {Ann, Bob}, e \in {"ann@x.com", "bob@x.com"},
        t \in {"Basic", "Premium"}}

\* Ann is stored, alone or next to Bob; two browsers hold Ann in Edit-mode
\* and each has sent its PUT /api/members/1.
InitLww ==
    /\ \E others \in {{}, {StoredBob}} :
          /\ members = {StoredAnn} \cup others
          /\ nextId = IF others = {} THEN 2 ELSE 3
          /\ created = IF others = {} THEN <<1>> ELSE <<1, 2>>
    /\ up = TRUE
    /\ deleted = {}
    /\ last = NoRequest
    /\ env = Env(0, 0, 19797)
    /\ rt = NoTrip
    /\ ui = InitUi(env.today)
    /\ \E a \in EditBodies, b \in EditBodies :
          calls = <<Call("PUT", 1, a, <<JsonRow(StoredAnn)>>),
                    Call("PUT", 1, b, <<JsonRow(StoredAnn)>>)>>

\* The server handles one of the two updates.
ServeEdit ==
    /\ up
    /\ \E k \in 1..2 :
          /\ calls[k].phase = "sent"
          /\ PutMember(NumId(calls[k].id), calls[k].body)
          /\ calls' = [calls EXCEPT
                          ![k] = Answered(@, last'.status, JsonRows(last'.rows))]
    /\ UNCHANGED <<env, rt, ui>>

NextLww == ServeEdit

SpecLww == InitLww /\ [][NextLww]_vars

\* The email of an edit is held by no record other than the edited one.
NoConflict(c) ==
    \A r \in members : r.id # c.id => r.email # c.body.email[1]

\* C17: when both updates of the record have been handled by the server and
\* neither runs into another record's email, both are answered 200 and the
\* stored record carries the values of the update handled last.
C17_LastWriteWins ==
    (/\ \A k \in 1..2 : calls[k].phase = "answered"
     /\ \A k \in 1..2 : NoConflict(calls[k]))
    => /\ \A k \in 1..2 : calls[k].status = 200
       /\ \E r \in members :
             /\ r.id = 1
             /\ \A s \in members : s.id = 1 => s = r
             /\ r.name = last.body.name[1]
             /\ r.email = last.body.email[1]
             /\ r.membership_type = last.body.membership_type[1]
             /\ r.join_date = last.body.join_date[1].day
             /\ r.status = last.body.status[1]

\* Both updates were answered 200 and the stored record is the later one,
\* which differs from the earlier one in every field the form changed.
C17_Witness ==
    /\ \A k \in 1..2 : calls[k].phase = "answered" /\ calls[k].status = 200
    /\ \E k \in 1..2 :
          /\ calls[k].body # last.body
          /\ calls[k].body.name # last.body.name
          /\ calls[k].body.email # last.body.email
    /\ \E r \in members : r.id = 1 /\ r.name = last.body.name[1]
                          /\ r.email = last.body.email[1]

====
